---------------------------- MODULE Spec2Model ----------------------------
(***************************************************************************)
(* Rideau Canal Skateway monitoring dashboard.                             *)
(*                                                                         *)
(* Server: the Express routes /api/latest, /api/history/:location and      *)
(* /api/status over the Cosmos DB container SensorAggregations.            *)
(* Client: the polling dashboard of public/app.js.                         *)
(*                                                                         *)
(* Strings of the program that the code takes apart (the limit query       *)
(* value, the location path parameter) are sequences of tokens, so that    *)
(* parseInt and decodeURIComponent are computed, not assumed.              *)
(***************************************************************************)
EXTENDS Integers, Sequences, FiniteSets, TLC

VARIABLES
    store,      \* the container's documents (a set of aggregate records)
    req,        \* the request the server handled last
    responses,  \* the responses the handler of req sent, in order
    queries,    \* the store queries the handler of req issued, in order
    previous,   \* the exchange before req, when req repeats its request
    tasks,      \* the dashboard's async calls, each waiting for one fetch
    fetchCount, \* how many fetches the dashboard has issued
    events,     \* how many timer firings and selections there have been
    selected,   \* locationSelect.value
    refreshTimer,  \* whether the interval timer is set
    listening,  \* whether the change listener is attached
    cards,      \* what locationsGrid shows
    lastUpdate, \* the fetch that set the lastUpdate text last (0: none)
    badge,      \* what the overallStatus badge shows
    chart,      \* what the two charts were built from
    iceThicknessChart,  \* the chart the variable refers to ({}: null)
    temperatureChart,   \* the chart the variable refers to ({}: null)
    liveCharts  \* per canvas, the charts created and not destroyed

serverVars == <<store, req, responses, queries, previous>>

clientVars == <<tasks, fetchCount, events, selected, refreshTimer,
                listening, cards, lastUpdate, badge, chart,
                iceThicknessChart, temperatureChart, liveCharts>>

vars == <<store, req, responses, queries, previous, tasks, fetchCount, events,
          selected, refreshTimer, listening, cards, lastUpdate, badge, chart,
          iceThicknessChart, temperatureChart, liveCharts>>

----------------------------------------------------------------------------
(* Bounds of the model *)

\* The most documents the container holds.
MaxRecords == 3

\* The most firings of the refresh timer and selections of a location,
\* together.
MaxEvents == 2

----------------------------------------------------------------------------
(* Values *)

\* JavaScript's undefined: an absent query value, a missing property.
Undefined == "undefined"

\* A field a response body does not carry.
Absent == "absent"

DowsLake == <<"Dow's", " ", "Lake">>

FifthAvenue == <<"Fifth", " ", "Avenue">>

NAC == <<"NAC">>

\* A location no route knows.
PattersonCreek == <<"Patterson", " ", "Creek">>

\* const locations = ['Dow\'s Lake', 'Fifth Avenue', 'NAC'], in declared order.
locations == <<DowsLake, FifthAvenue, NAC>>

LocationSet == {locations[i] : i \in 1..Len(locations)}

\* The safetyStatus values a stored document may carry: the three of the
\* data model, a differently-cased one, and none at all.
StoredStatuses == {"Safe", "Caution", "Unsafe", "SAFE", Undefined}

Min(a, b) == IF a <= b THEN a ELSE b

----------------------------------------------------------------------------
(* The container: SELECT TOP n ... WHERE c.location = @location            *)
(*                ORDER BY c.windowEnd DESC                                *)

WindowsOf(docs, location) == {r \in docs : r.location = location}

LatestOf(S) == CHOOSE r \in S : \A q \in S : q.windowEnd <= r.windowEnd

\* A query that orders by windowEnd ascending instead.
RECURSIVE OrderByWindowEndAsc(_)
OrderByWindowEndAsc(S) ==
    IF S = {} THEN <<>>
    ELSE LET m == CHOOSE r \in S : \A q \in S : r.windowEnd <= q.windowEnd
         IN  <<m>> \o OrderByWindowEndAsc(S \ {m})

RECURSIVE OrderByWindowEndDesc(_)
OrderByWindowEndDesc(S) ==
    IF S = {} THEN <<>>
    ELSE LET m == LatestOf(S)
         IN  <<m>> \o OrderByWindowEndDesc(S \ {m})

\* A query whose TOP clause is lost.
TopAll(n, rows) == rows

Top(n, rows) == SubSeq(rows, 1, Min(n, Len(rows)))

\* SELECT * keeps the document; SELECT c.safetyStatus projects it.
Project(select, r) ==
    IF select = "*" THEN r ELSE [safetyStatus |-> r.safetyStatus]

\* container.items.query(querySpec).fetchAll(): rejects when the store is
\* unreachable for this lookup (down) and when TOP is not a count.
FetchAll(q, down) ==
    IF down \/ q.top < 0
    THEN [thrown |-> TRUE, resources |-> <<>>]
    ELSE LET rows == Top(q.top, OrderByWindowEndDesc(WindowsOf(store, q.location)))
         IN  [thrown |-> FALSE,
              resources |-> [i \in 1..Len(rows) |-> Project(q.select, rows[i])]]

----------------------------------------------------------------------------
(* JavaScript conversions *)

Digits == {"0", "1", "2", "3", "4", "5", "6", "7", "8", "9"}

DigitVal(c) ==
    CASE c = "0" -> 0 [] c = "1" -> 1 [] c = "2" -> 2 [] c = "3" -> 3
      [] c = "4" -> 4 [] c = "5" -> 5 [] c = "6" -> 6 [] c = "7" -> 7
      [] c = "8" -> 8 [] c = "9" -> 9

RECURSIVE SkipSpace(_)
SkipSpace(s) ==
    IF s # <<>> /\ Head(s) = " " THEN SkipSpace(Tail(s)) ELSE s

\* The value of the longest prefix of digits of s, given the value so far.
RECURSIVE DigitsValue(_, _)
DigitsValue(s, acc) ==
    IF s # <<>> /\ Head(s) \in Digits
    THEN DigitsValue(Tail(s), 10 * acc + DigitVal(Head(s)))
    ELSE acc

\* parseInt(x): leading white space skipped, an optional sign, then the
\* longest prefix of decimal digits; NaN when there is none.
ParseInt(x) ==
    LET s    == SkipSpace(x)
        neg  == s # <<>> /\ Head(s) = "-"
        body == IF s # <<>> /\ Head(s) \in {"-", "+"} THEN Tail(s) ELSE s
    IN  IF body = <<>> \/ Head(body) \notin Digits
        THEN [nan |-> TRUE, val |-> 0]
        ELSE [nan |-> FALSE,
              val |-> IF neg THEN 0 - DigitsValue(body, 0)
                             ELSE DigitsValue(body, 0)]

\* const limit = parseInt(req.query.limit) || 12: NaN and 0 are falsy.
DefaultLimit == 12

ResolveLimit(raw) ==
    LET p == ParseInt(raw)
    IN  IF p.nan \/ p.val = 0 THEN DefaultLimit ELSE p.val

\* The percent escape of the model's tokens; a lone "%" is a malformed one.
Unescape(t) == IF t = "%20" THEN " " ELSE t

\* decodeURIComponent(s): every escape replaced by its character; throws
\* URIError on a malformed escape.
DecodeURIComponent(s) ==
    IF \E i \in 1..Len(s) : s[i] = "%"
    THEN [thrown |-> TRUE, value |-> <<>>]
    ELSE [thrown |-> FALSE, value |-> [i \in 1..Len(s) |-> Unescape(s[i])]]

\* Array.prototype.reverse
Reverse(s) == [i \in 1..Len(s) |-> s[Len(s) + 1 - i]]

----------------------------------------------------------------------------
(* Responses *)

NoBreakdown == [safe |-> 0, caution |-> 0, unsafe |-> 0, total |-> 0]

\* res.json({success: true, ...}) of the three routes; status 200.
LatestBody(latestData) ==
    [status |-> 200, success |-> TRUE, data |-> latestData,
     location |-> <<>>, dataPoints |-> Len(latestData),
     overallStatus |-> Absent, breakdown |-> NoBreakdown]

HistoryBody(location, resources) ==
    [status |-> 200, success |-> TRUE, data |-> resources,
     location |-> location, dataPoints |-> Len(resources),
     overallStatus |-> Absent, breakdown |-> NoBreakdown]

\* A body whose total is the number of locations counted.
StatusBodyTotalCounted(overallStatus, safeCount, cautionCount, unsafeCount) ==
    [status |-> 200, success |-> TRUE, data |-> <<>>,
     location |-> <<>>, dataPoints |-> 0,
     overallStatus |-> overallStatus,
     breakdown |-> [safe |-> safeCount, caution |-> cautionCount,
                    unsafe |-> unsafeCount,
                    total |-> safeCount + cautionCount + unsafeCount]]

StatusBody(overallStatus, safeCount, cautionCount, unsafeCount) ==
    [status |-> 200, success |-> TRUE, data |-> <<>>,
     location |-> <<>>, dataPoints |-> 0,
     overallStatus |-> overallStatus,
     breakdown |-> [safe |-> safeCount, caution |-> cautionCount,
                    unsafe |-> unsafeCount, total |-> Len(locations)]]

\* res.status(500).json({success: false, error, message}) of the catch blocks.
ErrorBody ==
    [status |-> 500, success |-> FALSE, data |-> <<>>,
     location |-> <<>>, dataPoints |-> 0,
     overallStatus |-> Absent, breakdown |-> NoBreakdown]

----------------------------------------------------------------------------
(* GET /api/latest *)

LatestQuery(location) == [top |-> 1, location |-> location, select |-> "*"]

\* The for loop over locations from index i on: the first lookup that
\* rejects leaves the loop (and the try block) at once.
RECURSIVE LatestLoop(_, _, _, _)
LatestLoop(i, latestData, issued, down) ==
    IF i > Len(locations)
    THEN [thrown |-> FALSE, latestData |-> latestData, issued |-> issued]
    ELSE LET q == LatestQuery(locations[i])
             r == FetchAll(q, locations[i] \in down)
         IN  IF r.thrown
             THEN [thrown |-> TRUE, latestData |-> latestData,
                   issued |-> Append(issued, q)]
             ELSE LatestLoop(i + 1,
                             IF Len(r.resources) > 0
                             THEN Append(latestData, r.resources[1])
                             ELSE latestData,
                             Append(issued, q), down)

\* A handler that answers with whatever it collected before the fault.
LatestHandlerPartial(down) ==
    LET run == LatestLoop(1, <<>>, <<>>, down)
    IN  [issued |-> run.issued, sent |-> <<LatestBody(run.latestData)>>]

LatestHandler(down) ==
    LET run == LatestLoop(1, <<>>, <<>>, down)
    IN  [issued |-> run.issued,
         sent   |-> IF run.thrown THEN <<ErrorBody>>
                    ELSE <<LatestBody(run.latestData)>>]

----------------------------------------------------------------------------
(* GET /api/history/:location *)

HistoryQuery(limit, location) ==
    [top |-> limit, location |-> location, select |-> "*"]

\* A handler that forgets resources.reverse().
HistoryHandlerNoReverse(param, rawLimit, down) ==
    LET decoded == DecodeURIComponent(param)
        limit   == ResolveLimit(rawLimit)
        q       == HistoryQuery(limit, decoded.value)
        r       == FetchAll(q, decoded.value \in down)
    IN  IF decoded.thrown
        THEN [issued |-> <<>>, sent |-> <<ErrorBody>>]
        ELSE IF r.thrown
        THEN [issued |-> <<q>>, sent |-> <<ErrorBody>>]
        ELSE [issued |-> <<q>>,
              sent   |-> <<HistoryBody(decoded.value, r.resources)>>]

\* A handler that keeps the array it answered with and, asked the same
\* again, reverses that array in place once more.
HistoryHandlerCached(param, rawLimit, down) ==
    IF /\ req.route = "history" /\ req.location = param /\ req.limit = rawLimit
       /\ Len(responses) = 1 /\ responses[1].success
    THEN [issued |-> <<>>,
          sent   |-> <<[responses[1] EXCEPT !.data = Reverse(@)]>>]
    ELSE LET decoded == DecodeURIComponent(param)
             q == HistoryQuery(ResolveLimit(rawLimit), decoded.value)
             r == FetchAll(q, decoded.value \in down)
         IN  IF decoded.thrown
             THEN [issued |-> <<>>, sent |-> <<ErrorBody>>]
             ELSE IF r.thrown
             THEN [issued |-> <<q>>, sent |-> <<ErrorBody>>]
             ELSE [issued |-> <<q>>,
                   sent |-> <<HistoryBody(decoded.value, Reverse(r.resources))>>]

HistoryHandler(param, rawLimit, down) ==
    LET decoded == DecodeURIComponent(param)
        limit   == ResolveLimit(rawLimit)
        q       == HistoryQuery(limit, decoded.value)
        r       == FetchAll(q, decoded.value \in down)
    IN  IF decoded.thrown
        THEN [issued |-> <<>>, sent |-> <<ErrorBody>>]
        ELSE IF r.thrown
        THEN [issued |-> <<q>>, sent |-> <<ErrorBody>>]
        ELSE [issued |-> <<q>>,
              sent   |-> <<HistoryBody(decoded.value, Reverse(r.resources))>>]

----------------------------------------------------------------------------
(* GET /api/status *)

StatusQuery(location) ==
    [top |-> 1, location |-> location, select |-> "safetyStatus"]

\* if (status === 'Safe') safeCount++; else if (status === 'Caution')
\* cautionCount++; else unsafeCount++;
\* A tally that compares without regard to case and takes anything that is
\* not Caution or Unsafe for Safe.
TallyLenient(counts, status) ==
    IF status = "Unsafe" THEN [counts EXCEPT !.unsafe = @ + 1]
    ELSE IF status = "Caution" THEN [counts EXCEPT !.caution = @ + 1]
    ELSE [counts EXCEPT !.safe = @ + 1]

Tally(counts, status) ==
    IF status = "Safe" THEN [counts EXCEPT !.safe = @ + 1]
    ELSE IF status = "Caution" THEN [counts EXCEPT !.caution = @ + 1]
    ELSE [counts EXCEPT !.unsafe = @ + 1]

\* A loop that reads resources[0] without the length check, so that a
\* location without records is tallied with an undefined status.
RECURSIVE StatusLoopUnchecked(_, _, _, _)
StatusLoopUnchecked(i, counts, issued, down) ==
    IF i > Len(locations)
    THEN [thrown |-> FALSE, counts |-> counts, issued |-> issued]
    ELSE LET q == StatusQuery(locations[i])
             r == FetchAll(q, locations[i] \in down)
         IN  IF r.thrown
             THEN [thrown |-> TRUE, counts |-> counts,
                   issued |-> Append(issued, q)]
             ELSE StatusLoopUnchecked(i + 1,
                      IF Len(r.resources) > 0
                      THEN Tally(counts, r.resources[1].safetyStatus)
                      ELSE Tally(counts, Undefined),
                      Append(issued, q), down)

RECURSIVE StatusLoop(_, _, _, _)
StatusLoop(i, counts, issued, down) ==
    IF i > Len(locations)
    THEN [thrown |-> FALSE, counts |-> counts, issued |-> issued]
    ELSE LET q == StatusQuery(locations[i])
             r == FetchAll(q, locations[i] \in down)
         IN  IF r.thrown
             THEN [thrown |-> TRUE, counts |-> counts,
                   issued |-> Append(issued, q)]
             ELSE StatusLoop(i + 1,
                             IF Len(r.resources) > 0
                             THEN Tally(counts, r.resources[1].safetyStatus)
                             ELSE counts,
                             Append(issued, q), down)

\* A roll-up that looks at the caution count first.
OverallStatusCautionFirst(counts) ==
    IF counts.caution > 0 THEN "Caution"
    ELSE IF counts.unsafe > 0 THEN "Unsafe"
    ELSE "Safe"

\* unsafeCount > 0 ? 'Unsafe' : cautionCount > 0 ? 'Caution' : 'Safe'
OverallStatus(counts) ==
    IF counts.unsafe > 0 THEN "Unsafe"
    ELSE IF counts.caution > 0 THEN "Caution"
    ELSE "Safe"

StatusHandler(down) ==
    LET run == StatusLoop(1, [safe |-> 0, caution |-> 0, unsafe |-> 0],
                          <<>>, down)
    IN  [issued |-> run.issued,
         sent   |-> IF run.thrown THEN <<ErrorBody>>
                    ELSE <<StatusBody(OverallStatus(run.counts), run.counts.safe,
                                      run.counts.caution, run.counts.unsafe)>>]

----------------------------------------------------------------------------
(* The server as a state machine *)

\* What a client may put in the path and in ?limit=.
LocationParams ==
    {<<"Dow's", "%20", "Lake">>, <<"Dow's", " ", "Lake">>, <<"NAC">>,
     <<"Patterson", "%20", "Creek">>, <<"NAC", "%">>}

\* An absent limit reaches parseInt as undefined, which it reads as the
\* string "undefined".
NoLimit == <<"undefined">>

LimitParams ==
    {NoLimit, <<"a", "b", "c">>, <<"0">>, <<"-", "1">>, <<"1">>, <<"2">>,
     <<"3">>, <<"6", "0", "0">>, <<" ", "2", "a">>}

AllLocations == LocationSet \cup {PattersonCreek}

NoRequest == [route |-> "none", location |-> <<>>, limit |-> <<>>, down |-> {}]

NoExchange == [req |-> NoRequest, responses |-> <<>>]

InitServer ==
    /\ store = {}
    /\ req = NoRequest
    /\ responses = <<>>
    /\ queries = <<>>
    /\ previous = NoExchange

\* The ingestion pipeline appends the next window of a location; documents
\* are never changed or removed.
Ingest(location, status) ==
    /\ req = NoRequest
    /\ Cardinality(store) < MaxRecords
    /\ store' = store \cup
           {[location |-> location,
             windowEnd |-> Cardinality(WindowsOf(store, location)) + 1,
             safetyStatus |-> status]}
    /\ UNCHANGED <<req, responses, queries, previous>>
    /\ UNCHANGED clientVars

\* The handlers share no state and only read the store, so requests are
\* taken one at a time: a handler runs from its first line to its response.
GetLatest(down) ==
    /\ req = NoRequest
    /\ req' = [route |-> "latest", location |-> <<>>, limit |-> <<>>,
               down |-> down]
    /\ responses' = LatestHandler(down).sent
    /\ queries' = LatestHandler(down).issued
    /\ UNCHANGED <<store, previous>>
    /\ UNCHANGED clientVars

GetHistory(param, rawLimit, down) ==
    /\ req = NoRequest
    /\ req' = [route |-> "history", location |-> param, limit |-> rawLimit,
               down |-> down]
    /\ responses' = HistoryHandler(param, rawLimit, down).sent
    /\ queries' = HistoryHandler(param, rawLimit, down).issued
    /\ UNCHANGED <<store, previous>>
    /\ UNCHANGED clientVars

GetStatus(down) ==
    /\ req = NoRequest
    /\ req' = [route |-> "status", location |-> <<>>, limit |-> <<>>,
               down |-> down]
    /\ responses' = StatusHandler(down).sent
    /\ queries' = StatusHandler(down).issued
    /\ UNCHANGED <<store, previous>>
    /\ UNCHANGED clientVars

\* The response has gone out and the exchange is over.
EndRequest ==
    /\ req # NoRequest
    /\ req' = NoRequest
    /\ responses' = <<>>
    /\ queries' = <<>>
    /\ previous' = NoExchange
    /\ UNCHANGED <<store>>
    /\ UNCHANGED clientVars

\* The client sends the request it has just been answered once more, with
\* no ingestion in between.
RepeatHistory(down) ==
    /\ req.route = "history"
    /\ previous' = [req |-> req, responses |-> responses]
    /\ req' = [req EXCEPT !.down = down]
    /\ responses' = HistoryHandler(req.location, req.limit, down).sent
    /\ queries' = HistoryHandler(req.location, req.limit, down).issued
    /\ UNCHANGED <<store>>
    /\ UNCHANGED clientVars

\* The limits of the requests that are repeated.
RepeatLimits == {NoLimit, <<"0">>, <<"1">>, <<"2">>}

Next ==
    \/ \E location \in LocationSet, status \in StoredStatuses :
           Ingest(location, status)
    \/ \E down \in SUBSET LocationSet : GetLatest(down)
    \/ \E param \in LocationParams, rawLimit \in LimitParams,
          down \in {{}, AllLocations} : GetHistory(param, rawLimit, down)
    \/ \E down \in SUBSET LocationSet : GetStatus(down)
    \/ EndRequest

NextRepeat ==
    \/ \E location \in LocationSet, status \in StoredStatuses :
           Ingest(location, status)
    \/ \E param \in LocationParams, rawLimit \in RepeatLimits,
          down \in {{}, AllLocations} : GetHistory(param, rawLimit, down)
    \/ \E down \in {{}, AllLocations} : RepeatHistory(down)
    \/ EndRequest

----------------------------------------------------------------------------
(* The dashboard (public/app.js) *)

\* encodeURIComponent(s): a space becomes %20; the model's other tokens
\* (letters, the apostrophe) are left as they are.
EncodeURIComponent(s) ==
    [i \in 1..Len(s) |-> IF s[i] = " " THEN "%20" ELSE s[i]]

\* What a fetch may come to: a 200 with records, a 200 with an empty data
\* array, the server's 500 {success: false}, or a rejected promise.
LatestOutcomes == {"ok", "empty", "fail", "reject"}

HistoryOutcomes == {"ok", "fail", "reject"}

StatusOutcomes == {"ok", "fail", "reject"}

NoChart == [src |-> "none", location |-> <<>>, no |-> 0, kind |-> "none"]

NoCards == [src |-> "blank", no |-> 0]

NoBadge == [src |-> "initial", no |-> 0]

\* A call of kind init, tick or change that waits at pc for fetch number no.
Task(kind, pc, location, no) ==
    [kind |-> kind, pc |-> pc, location |-> location, no |-> no]

InitClient ==
    /\ tasks = {}
    /\ fetchCount = 0
    /\ events = 0
    /\ selected = DowsLake
    /\ refreshTimer = FALSE
    /\ listening = FALSE
    /\ cards = NoCards
    /\ lastUpdate = 0
    /\ badge = NoBadge
    /\ chart = NoChart
    /\ iceThicknessChart = {}
    /\ temperatureChart = {}
    /\ liveCharts = [ice |-> {}, temp |-> {}]

\* The location a history response is about: the server decodes the path
\* the client encoded.
HistoryLocation(location) ==
    DecodeURIComponent(EncodeURIComponent(location)).value

\* loadLatestData, first try block, from the response on.
LatestRendered(outcome, no) ==
    IF outcome = "ok" THEN [src |-> "live", no |-> no]
    ELSE IF outcome = "reject" THEN [src |-> "mock", no |-> no]
    ELSE cards

\* loadLatestData, second try block, from the response on.
StatusRendered(outcome, no) ==
    IF outcome = "ok" THEN [src |-> "live", no |-> no]
    ELSE IF outcome = "reject" THEN [src |-> "OPERATIONAL", no |-> no]
    ELSE badge

\* loadHistoricalData from the response on: updateCharts with the data of
\* the response, or with generated data when the fetch rejected.
HistoryRendered(outcome, t) ==
    IF outcome = "ok"
    THEN [src |-> "live", location |-> HistoryLocation(t.location),
          no |-> t.no, kind |-> t.kind]
    ELSE IF outcome = "reject"
    THEN [src |-> "mock", location |-> <<>>, no |-> t.no, kind |-> t.kind]
    ELSE chart

\* updateCharts without its two destroy() calls.
UpdateChartsNoDestroy(no) ==
    [iceThicknessChart |-> {no},
     temperatureChart  |-> {no},
     liveCharts        |-> [ice  |-> liveCharts.ice \cup {no},
                            temp |-> liveCharts.temp \cup {no}]]

\* updateCharts for the data of fetch number no, which names the two charts
\* it creates: if (chart) chart.destroy(); chart = new Chart(...), for the
\* ice canvas and then for the temperature canvas.
UpdateCharts(no) ==
    [iceThicknessChart |-> {no},
     temperatureChart  |-> {no},
     liveCharts        |-> [ice  |-> (liveCharts.ice \ iceThicknessChart) \cup {no},
                            temp |-> (liveCharts.temp \ temperatureChart) \cup {no}]]

\* DOMContentLoaded: init() runs up to its first await, the fetch of
\* /api/latest in loadLatestData.
DOMContentLoaded ==
    /\ fetchCount = 0
    /\ fetchCount' = 1
    /\ tasks' = {Task("init", "latest", <<>>, 1)}
    /\ UNCHANGED <<events, selected, refreshTimer, listening, cards,
                   lastUpdate, badge, chart,
                   iceThicknessChart, temperatureChart, liveCharts>>
    /\ UNCHANGED serverVars

\* The interval callback starts: loadLatestData up to its fetch.
Tick ==
    /\ refreshTimer
    /\ events < MaxEvents
    /\ events' = events + 1
    /\ fetchCount' = fetchCount + 1
    /\ tasks' = tasks \cup {Task("tick", "latest", <<>>, fetchCount + 1)}
    /\ UNCHANGED <<selected, refreshTimer, listening, cards,
                   lastUpdate, badge, chart,
                   iceThicknessChart, temperatureChart, liveCharts>>
    /\ UNCHANGED serverVars

\* A change handler that refreshes everything: it calls loadLatestData
\* before loadHistoricalData, as the timer does.
SelectLocationFullRefresh(location) ==
    /\ location # selected
    /\ events < MaxEvents
    /\ events' = events + 1
    /\ selected' = location
    /\ IF listening
       THEN /\ fetchCount' = fetchCount + 1
            /\ tasks' = tasks \cup {Task("change", "latest", <<>>, fetchCount + 1)}
       ELSE UNCHANGED <<fetchCount, tasks>>
    /\ UNCHANGED <<refreshTimer, listening, cards, lastUpdate, badge, chart,
                   iceThicknessChart, temperatureChart, liveCharts>>
    /\ UNCHANGED serverVars

\* The user picks another location; with the listener attached the change
\* handler runs loadHistoricalData(e.target.value) up to its fetch.
SelectLocation(location) ==
    /\ location # selected
    /\ events < MaxEvents
    /\ events' = events + 1
    /\ selected' = location
    /\ IF listening
       THEN /\ fetchCount' = fetchCount + 1
            /\ tasks' = tasks \cup {Task("change", "history", location, fetchCount + 1)}
       ELSE UNCHANGED <<fetchCount, tasks>>
    /\ UNCHANGED <<refreshTimer, listening, cards, lastUpdate, badge, chart,
                   iceThicknessChart, temperatureChart, liveCharts>>
    /\ UNCHANGED serverVars

\* The /api/latest fetch of t settles: the cards are rendered (or not), and
\* loadLatestData goes on to fetch /api/status.
LatestSettles(t, outcome) ==
    /\ t \in tasks /\ t.pc = "latest"
    /\ cards' = LatestRendered(outcome, t.no)
    /\ lastUpdate' = IF outcome = "ok" THEN t.no ELSE lastUpdate
    /\ fetchCount' = fetchCount + 1
    /\ tasks' = (tasks \ {t}) \cup {Task(t.kind, "status", <<>>, fetchCount + 1)}
    /\ UNCHANGED <<events, selected, refreshTimer, listening, badge, chart,
                   iceThicknessChart, temperatureChart, liveCharts>>
    /\ UNCHANGED serverVars

\* The /api/status fetch of t settles: the badge is set (or not),
\* loadLatestData returns, and the caller goes on to loadHistoricalData, of
\* the default location in init and of the selected one in the timer.
StatusSettles(t, outcome) ==
    /\ t \in tasks /\ t.pc = "status"
    /\ badge' = StatusRendered(outcome, t.no)
    /\ fetchCount' = fetchCount + 1
    /\ tasks' = (tasks \ {t}) \cup
           {Task(t.kind, "history",
                 IF t.kind = "init" THEN DowsLake ELSE selected, fetchCount + 1)}
    /\ UNCHANGED <<events, selected, refreshTimer, listening, cards,
                   lastUpdate, chart,
                   iceThicknessChart, temperatureChart, liveCharts>>
    /\ UNCHANGED serverVars

\* An init that calls startAutoRefresh only when its history fetch brought
\* data.
HistorySettlesTimerOnSuccess(t, outcome) ==
    /\ t \in tasks /\ t.pc = "history"
    /\ chart' = HistoryRendered(outcome, t)
    /\ IF outcome = "fail"
       THEN UNCHANGED <<iceThicknessChart, temperatureChart, liveCharts>>
       ELSE /\ iceThicknessChart' = UpdateCharts(t.no).iceThicknessChart
            /\ temperatureChart' = UpdateCharts(t.no).temperatureChart
            /\ liveCharts' = UpdateCharts(t.no).liveCharts
    /\ tasks' = tasks \ {t}
    /\ refreshTimer' = (refreshTimer \/ (t.kind = "init" /\ outcome = "ok"))
    /\ listening' = (listening \/ t.kind = "init")
    /\ UNCHANGED <<fetchCount, events, selected, cards, lastUpdate, badge>>
    /\ UNCHANGED serverVars

\* The /api/history fetch of t settles: the charts are rebuilt (or not) and
\* the call ends; init then starts the timer and attaches the listener.
HistorySettles(t, outcome) ==
    /\ t \in tasks /\ t.pc = "history"
    /\ chart' = HistoryRendered(outcome, t)
    /\ IF outcome = "fail"
       THEN UNCHANGED <<iceThicknessChart, temperatureChart, liveCharts>>
       ELSE /\ iceThicknessChart' = UpdateCharts(t.no).iceThicknessChart
            /\ temperatureChart' = UpdateCharts(t.no).temperatureChart
            /\ liveCharts' = UpdateCharts(t.no).liveCharts
    /\ tasks' = tasks \ {t}
    /\ refreshTimer' = (refreshTimer \/ t.kind = "init")
    /\ listening' = (listening \/ t.kind = "init")
    /\ UNCHANGED <<fetchCount, events, selected, cards, lastUpdate, badge>>
    /\ UNCHANGED serverVars

\* The interval callback starts when the refresh before it has ended, as it
\* does while answers take less than REFRESH_INTERVAL. The timer fires for
\* as long as the page lives, so the callback is not counted, and its
\* fetches are numbered from 4 each time: those of init were 1, 2 and 3.
QuietTick ==
    /\ refreshTimer
    /\ tasks = {}
    /\ fetchCount' = 4
    /\ tasks' = {Task("tick", "latest", <<>>, 4)}
    /\ UNCHANGED <<events, selected, refreshTimer, listening, cards,
                   lastUpdate, badge, chart,
                   iceThicknessChart, temperatureChart, liveCharts>>
    /\ UNCHANGED serverVars

\* A fetch of /api/latest, /api/status or /api/history settles.
LatestSettled == \E t \in tasks, outcome \in LatestOutcomes : LatestSettles(t, outcome)

StatusSettled == \E t \in tasks, outcome \in StatusOutcomes : StatusSettles(t, outcome)

HistorySettled == \E t \in tasks, outcome \in HistoryOutcomes : HistorySettles(t, outcome)

\* The dashboard left to itself: no selection is made.
NextRecovery ==
    \/ DOMContentLoaded
    \/ QuietTick
    \/ LatestSettled
    \/ StatusSettled
    \/ HistorySettled

\* The page loads, the timer fires, every fetch settles, and a fetch that
\* is issued again and again succeeds at some time.
RecoveryFairness ==
    /\ WF_vars(DOMContentLoaded)
    /\ WF_vars(QuietTick)
    /\ WF_vars(LatestSettled)
    /\ WF_vars(StatusSettled)
    /\ WF_vars(HistorySettled)
    /\ SF_vars(\E t \in tasks : LatestSettles(t, "ok"))
    /\ SF_vars(\E t \in tasks : HistorySettles(t, "ok"))

NextClient ==
    \/ DOMContentLoaded
    \/ Tick
    \/ \E location \in LocationSet : SelectLocation(location)
    \/ \E t \in tasks, outcome \in LatestOutcomes : LatestSettles(t, outcome)
    \/ \E t \in tasks, outcome \in StatusOutcomes : StatusSettles(t, outcome)
    \/ \E t \in tasks, outcome \in HistoryOutcomes : HistorySettles(t, outcome)

----------------------------------------------------------------------------
(* Specifications *)

Init == InitServer /\ InitClient

\* The server over a growing store.
Spec == Init /\ [][Next]_vars

\* The server answering each history request a second time.
RepeatSpec == Init /\ [][NextRepeat]_vars

\* The dashboard against a server whose answers are any of the outcomes.
ClientSpec == Init /\ [][NextClient]_vars

\* The dashboard left to itself for good, under fairness of the timer and
\* of the fetches.
RecoverySpec == Init /\ [][NextRecovery]_vars /\ RecoveryFairness

----------------------------------------------------------------------------
(* Properties of the dashboard *)

\* C1 (as claimed): once the charts show the response of the history
\* fetch a user selection of location Y issued, the response of a history
\* fetch for another location X is passed to updateCharts only if that fetch
\* was issued later: the late response of an earlier fetch is discarded.
C1_StaleHistoryDiscarded ==
    [][(/\ chart.src = "live" /\ chart.kind = "change"
        /\ chart'.src = "live" /\ chart'.location # chart.location)
       => chart'.no > chart.no]_vars

\* C13 (as claimed): when the /api/latest fetch fails, by a rejected
\* promise or by the server's 500 {success: false}, the cards show a
\* last-known-good or fallback display afterwards, never the blank grid.
C13_FailureNeverBlank ==
    [][(\E t \in tasks : LatestSettles(t, "fail") \/ LatestSettles(t, "reject"))
       => cards'.src # "blank"]_vars

\* C14 (as claimed): a failed refresh never replaces cards or charts
\* rendered from fetched data by generated (mock) data.
C14_NoMockOverLive ==
    [][/\ cards.src = "live" => cards'.src # "mock"
       /\ chart.src = "live" => chart'.src # "mock"]_vars

\* C15: with no user action, cards that show generated data after a
\* failed fetch show fetched data again at some later time, and so do the
\* charts: the timer keeps firing after failures and the first tick whose
\* fetch succeeds renders its response.
C15_RecoversWithoutUser ==
    /\ (cards.src = "mock") ~> (cards.src = "live")
    /\ (chart.src = "mock") ~> (chart.src = "live")

\* Cards and charts show fetched data again, rendered by a timer tick, after
\* the initial load had failed altogether: its update time was never set.
C15_Witness ==
    /\ cards = [src |-> "live", no |-> 4]
    /\ chart.src = "live" /\ chart.kind = "tick"
    /\ badge.src = "OPERATIONAL" /\ badge.no = 2
    /\ lastUpdate = 4

InitHistoryIssued ==
    \/ \E t \in tasks : t.kind = "init" /\ t.pc = "history"
    \/ listening

\* C17 (as claimed): on initial load the history fetch of the default
\* location is issued together with the latest-snapshot fetch, so while that
\* one (or the status fetch after it) is outstanding the history fetch has
\* been issued.
C17_InitialFetchesConcurrent ==
    (\E t \in tasks : t.kind = "init" /\ t.pc \in {"latest", "status"})
        => InitHistoryIssued

\* C18 (as claimed): with refresh cycles overlapping, what is rendered
\* from a fetch is never replaced by the response of a fetch issued earlier:
\* not the cards, not the badge, and not the charts when a timer-issued
\* history fetch is one of the two.
C18_NoOlderOverNewer ==
    [][/\ (cards.src = "live" /\ cards'.src = "live") => cards'.no >= cards.no
       /\ (badge.src = "live" /\ badge'.src = "live") => badge'.no >= badge.no
       /\ (/\ chart.src = "live" /\ chart'.src = "live"
           /\ "tick" \in {chart.kind, chart'.kind})
          => chart'.no >= chart.no]_vars

\* What the change handler does with the selection of another location: one
\* history fetch for it, nothing else fetched, cards, badge and update time
\* as they were.
OneHistoryFetch ==
    /\ fetchCount' = fetchCount + 1
    /\ tasks' = tasks \cup {Task("change", "history", selected', fetchCount')}
    /\ UNCHANGED <<cards, badge, lastUpdate>>

\* The handler's call ends with its one fetch: nothing more is fetched and
\* cards, badge and update time are as they were.
ChangeCallEnds ==
    (\E t \in tasks : t.kind = "change" /\ t \notin tasks')
        => /\ fetchCount' = fetchCount
           /\ \A t \in tasks' : t.kind = "change" => t \in tasks
           /\ UNCHANGED <<cards, badge, lastUpdate>>

\* C19 (as claimed): every selection of another location triggers exactly
\* one history fetch for it and no other fetch, and leaves the cards, the
\* badge and the update time alone.
C19_SelectionFetchesHistoryOnly ==
    [][/\ (selected' # selected) => OneHistoryFetch
       /\ ChangeCallEnds]_vars

\* C19 (amended): the same, once init has attached the change listener;
\* a selection made before that triggers no fetch at all.
C19_SelectionFetchesHistoryOnlyOnceListening ==
    [][/\ (selected' # selected /\ listening) => OneHistoryFetch
       /\ (selected' # selected /\ ~listening)
              => UNCHANGED <<fetchCount, tasks, cards, badge, lastUpdate>>
       /\ ChangeCallEnds]_vars

\* With cards and badge rendered, the user has selected NAC and the change
\* handler's history fetch for NAC is outstanding, the only fetch there is.
C19_Witness ==
    /\ selected = NAC
    /\ tasks = {Task("change", "history", NAC, fetchCount)}
    /\ cards.src = "live" /\ badge.src = "live"

\* C20: each canvas has at most one chart that was created and not
\* destroyed, and it is the one its variable refers to; so the chart
\* replaced was destroyed and the chart referred to was not.
C20_OneLiveChartPerCanvas ==
    /\ liveCharts.ice = iceThicknessChart
    /\ liveCharts.temp = temperatureChart
    /\ Cardinality(liveCharts.ice) <= 1
    /\ Cardinality(liveCharts.temp) <= 1

\* The charts have been rebuilt at least twice, the last time from generated
\* data, while another history fetch is still outstanding.
C20_Witness ==
    /\ chart.src = "mock" /\ chart.no > 4
    /\ iceThicknessChart = {chart.no}
    /\ \E t \in tasks : t.pc = "history"

----------------------------------------------------------------------------
(* Properties of the server *)

\* The one response of the request handled last.
Res == responses[1]

Served(route) == req.route = route /\ Len(responses) >= 1

HasData(location) == WindowsOf(store, location) # {}

\* The safetyStatus of the latest stored window of a location with data.
LatestStatus(location) == LatestOf(WindowsOf(store, location)).safetyStatus

WithData == {l \in LocationSet : HasData(l)}

ValidStatuses == {"Safe", "Caution", "Unsafe"}

\* The limit as the caller wrote it, when parseInt reads a number in it.
HasK == ~ParseInt(req.limit).nan

K == ParseInt(req.limit).val

StrictlyAscending(data) ==
    \A i, j \in 1..Len(data) : i < j => data[i].windowEnd < data[j].windowEnd

\* C2: with no store fault GET /api/status succeeds, and its overallStatus
\* is Unsafe if any location's latest status is Unsafe, whatever the others
\* are; otherwise (statuses of the data model) Caution if any is Caution;
\* otherwise Safe.
C2_StrictPriority ==
    Served("status") =>
        /\ req.down = {} => Res.success
        /\ Res.success =>
            /\ (\E l \in WithData : LatestStatus(l) = "Unsafe")
                   => Res.overallStatus = "Unsafe"
            /\ (\A l \in WithData : LatestStatus(l) \in ValidStatuses) =>
                   Res.overallStatus =
                       IF \E l \in WithData : LatestStatus(l) = "Unsafe"
                       THEN "Unsafe"
                       ELSE IF \E l \in WithData : LatestStatus(l) = "Caution"
                       THEN "Caution"
                       ELSE "Safe"

\* Every location has data, one latest status is Safe, one Caution and one
\* Unsafe, and the roll-up has been served.
C2_Witness ==
    /\ Served("status") /\ Res.success
    /\ {LatestStatus(l) : l \in WithData} = ValidStatuses
    /\ WithData = LocationSet
    /\ Res.overallStatus = "Unsafe"

\* C3: a latest record whose safetyStatus is neither Safe, Caution nor
\* Unsafe (missing, differently cased) is counted in the unsafe tally and
\* forces overallStatus to Unsafe.
C3_UnknownIsUnsafe ==
    (Served("status") /\ Res.success) =>
        /\ Res.breakdown.unsafe =
               Cardinality({l \in WithData :
                                LatestStatus(l) \notin {"Safe", "Caution"}})
        /\ (\E l \in WithData : LatestStatus(l) \notin ValidStatuses)
               => Res.overallStatus = "Unsafe"

\* A differently-cased status and a missing one are the latest of two
\* locations, no latest status is the string Unsafe, and the roll-up served
\* is Unsafe.
C3_Witness ==
    /\ Served("status") /\ Res.success
    /\ \E l \in WithData : LatestStatus(l) = "SAFE"
    /\ \E l \in WithData : LatestStatus(l) = Undefined
    /\ \A l \in WithData : LatestStatus(l) # "Unsafe"
    /\ Res.overallStatus = "Unsafe"
    /\ Res.breakdown.unsafe = 2

\* The records GET /api/latest owes for the locations whose lookup works.
LatestOfReachable(down) ==
    {LatestOf(WindowsOf(store, l)) : l \in WithData \ down}

\* C4 (as claimed): when the lookup fails for some but not all locations,
\* GET /api/latest still answers success:true with the latest record of
\* every location whose lookup succeeded.
C4_PartialFailureTolerated ==
    (Served("latest") /\ req.down # {} /\ req.down # LocationSet) =>
        /\ Res.success
        /\ {Res.data[i] : i \in 1..Len(Res.data)} = LatestOfReachable(req.down)

\* C5: when the store query fails for every location, GET /api/latest
\* sends exactly one response, HTTP 500 with success:false.
C5_TotalFailureIs500 ==
    (req.route = "latest" /\ req.down = LocationSet) =>
        /\ Len(responses) = 1
        /\ Res.status = 500
        /\ ~Res.success

\* The store holds data, every lookup of a GET /api/latest failed and the
\* handler has answered.
C5_Witness ==
    /\ Served("latest") /\ req.down = LocationSet
    /\ store # {}
    /\ Res.status = 500

\* C6: with no store fault GET /api/latest succeeds; its data holds
\* exactly one entry for every known location with a record, a stored record
\* of that location whose windowEnd no other record of it exceeds, and no
\* entry for a location without records.
C6_LatestPerLocation ==
    (Served("latest") /\ req.down = {}) =>
        /\ Res.success
        /\ \A l \in LocationSet :
               LET at == {i \in 1..Len(Res.data) : Res.data[i].location = l}
               IN  IF HasData(l)
                   THEN /\ Cardinality(at) = 1
                        /\ \A i \in at :
                               /\ Res.data[i] \in store
                               /\ \A r \in WindowsOf(store, l) :
                                      r.windowEnd <= Res.data[i].windowEnd
                   ELSE at = {}

\* One location has two windows, another has none, and the snapshot served
\* holds the later window of the first.
C6_Witness ==
    /\ Served("latest") /\ req.down = {} /\ Res.success
    /\ \E l \in LocationSet : Cardinality(WindowsOf(store, l)) >= 2
    /\ \E l \in LocationSet : ~HasData(l)
    /\ \E i \in 1..Len(Res.data) : Res.data[i].windowEnd = 2

\* C7 (as claimed): for every limit k, k = 0 included, the data of
\* GET /api/history has length at most k and is strictly ascending by
\* windowEnd.
C7_AtMostK ==
    (Served("history") /\ Res.success /\ HasK) =>
        /\ Len(Res.data) <= K
        /\ StrictlyAscending(Res.data)

\* C7 (amended): the data of a successful GET /api/history is strictly
\* ascending by windowEnd (so no windowEnd twice); its length is at most k
\* for a limit k >= 1, and at most the default 12 for k = 0.
C7_AtMostResolvedLimit ==
    (Served("history") /\ Res.success) =>
        /\ StrictlyAscending(Res.data)
        /\ (HasK /\ K >= 1) => Len(Res.data) <= K
        /\ (HasK /\ K = 0) => Len(Res.data) <= 12

\* A location with three windows was asked for with limit 2 and two records
\* were served.
C7_Witness ==
    /\ Served("history") /\ Res.success
    /\ HasK /\ K = 2
    /\ Cardinality(WindowsOf(store, Res.location)) = 3
    /\ Len(Res.data) = 2

\* The k records of greatest windowEnd among S.
Greatest(k, S) ==
    {r \in S : Cardinality({q \in S : q.windowEnd > r.windowEnd}) < k}

\* C8: for a location with more than k stored windows (k >= 1),
\* GET /api/history with limit k returns exactly the k records of greatest
\* windowEnd, oldest first.
C8_LastKChronological ==
    (Served("history") /\ req.down = {} /\ HasK /\ K >= 1
       /\ ~DecodeURIComponent(req.location).thrown
       /\ Cardinality(WindowsOf(store, DecodeURIComponent(req.location).value)) > K)
    =>  /\ Res.success
        /\ Len(Res.data) = K
        /\ {Res.data[i] : i \in 1..Len(Res.data)} =
               Greatest(K, WindowsOf(store, DecodeURIComponent(req.location).value))
        /\ StrictlyAscending(Res.data)

\* Dow's Lake has windows 1, 2 and 3 and limit 2 was served windows 2, 3.
C8_Witness ==
    /\ Served("history") /\ Res.success
    /\ req.location = <<"Dow's", "%20", "Lake">>
    /\ HasK /\ K = 2
    /\ Cardinality(WindowsOf(store, DowsLake)) = 3
    /\ Len(Res.data) = 2
    /\ Res.data[1].windowEnd = 2 /\ Res.data[2].windowEnd = 3

\* C9 (as claimed): whatever limit the caller supplies, the limit used in
\* the store query lies in 1..500, a malformed one resolves to 12, and the
\* limit never makes the request fail.
C9_LimitClamped ==
    Served("history") =>
        /\ \A i \in 1..Len(queries) : queries[i].top \in 1..500
        /\ (~HasK /\ Len(queries) >= 1) => queries[1].top = 12
        /\ (req.down = {} /\ ~DecodeURIComponent(req.location).thrown)
               => Res.success

\* C10 (as claimed): a request for a location outside the known set gets
\* a client error (4xx), neither a success nor the 500 response, and no
\* store query is issued for it.
C10_UnknownLocationRejected ==
    (Served("history")
       /\ (DecodeURIComponent(req.location).thrown
           \/ DecodeURIComponent(req.location).value \notin LocationSet))
    =>  /\ Res.status \in 400..499
        /\ ~Res.success
        /\ queries = <<>>

\* C11: in every success response of GET /api/status, safe + caution +
\* unsafe is the number of known locations that have a latest record (a
\* location without records is in none of the three), and total is the size
\* of the location set, 3.
C11_TalliesAndTotal ==
    (Served("status") /\ Res.success) =>
        /\ Res.breakdown.safe + Res.breakdown.caution + Res.breakdown.unsafe
               = Cardinality(WithData)
        /\ Res.breakdown.total = Cardinality(LocationSet)
        /\ Res.breakdown.total = 3

\* One location has a record, another has none, and the breakdown served
\* counts one location out of three.
C11_Witness ==
    /\ Served("status") /\ Res.success
    /\ Cardinality(WithData) = 1
    /\ Res.breakdown.safe + Res.breakdown.caution + Res.breakdown.unsafe = 1
    /\ Res.breakdown.total = 3

\* The roll-up of a set of latest statuses, anything but Safe and Caution
\* weighing as Unsafe.
RollUpOf(statuses) ==
    IF \E st \in statuses : st \notin {"Safe", "Caution"} THEN "Unsafe"
    ELSE IF "Caution" \in statuses THEN "Caution"
    ELSE "Safe"

\* C12: when some location has no record, the overallStatus of
\* GET /api/status is the roll-up over the locations that have data alone.
C12_NoDataIsNeutral ==
    (Served("status") /\ Res.success /\ WithData # LocationSet) =>
        Res.overallStatus = RollUpOf({LatestStatus(l) : l \in WithData})

\* One location's latest status is Caution, the others have no record, and
\* the roll-up served is Caution.
C12_Witness ==
    /\ Served("status") /\ Res.success
    /\ Cardinality(WithData) = 1
    /\ \A l \in WithData : LatestStatus(l) = "Caution"
    /\ Res.overallStatus = "Caution"

============================================================================
